---- MODULE Spec2Model ----
(***************************************************************************)
(* The mTLS identity and transport layer of src/src/base/spiffe_agent.py:  *)
(* SPIFFEMTLSHandler (credential refresh, materialization to temporary     *)
(* files, readers of the materialized files), BaseSPIFFEAgent (run and the *)
(* request handler AgentHandler) and APIClient.post of                     *)
(* src/src/lms/utils/api_client.py.                                        *)
(***************************************************************************)
EXTENDS Integers, Sequences, FiniteSets, TLC

\* ---------------------------------------------------------------- bounds
\* SVID generations the identity agent can issue (it rotates up to MaxGen).
MaxGen == 2
\* Abnormal events of one behaviour: a tempfile / write error, or a bundle set
\* of the agent from which no CA certificate can be taken.
MaxFaults == 1
\* Threads of one process that call APIClient.
MaxApiThreads == 3
\* Connections that wait in the listen queue of the server.
MaxPending == 1
\* ------------------------------------------------------- program constants
max_attempts == 5
\* time.sleep(1800) of refresh_loop, in seconds
RefreshPeriod == 1800
\* lifetime of an X.509-SVID, in seconds ("certificate_ttl_seconds": 3600)
ValidFor == 3600

\* self.cert_file = None (a file-valued field holding no file)
NoFile == 0
\* Python's None for string-valued fields and locals
PyNone == "<None>"

\* Names of temporary files. tempfile never hands out a name that exists; a
\* certificate (.pem), key (.key) or bundle name is fresh when it differs from the
\* one the handler's field still holds, so two names of each kind are enough.
\* Every name whose file was unlinked and which the handler dropped names a
\* file that is gone for good: the reader keeps Gone for any of them.
NamePool == [cert |-> <<1, 2>>, key |-> <<3, 4>>, bundle |-> <<5, 6>>]
Gone == 7
FileIds == 1..Gone
Threads == {"ctor", "bg"}

VARIABLES
  \* the identity agent (Workload API) and the local environment
  agentUp,        \* the agent answers
  agentGen,       \* generation of the SVID and bundle it currently issues
  faults,         \* abnormal events so far
  \* SPIFFEMTLSHandler fields
  x509_svid,      \* 0 (None) or the generation of the fetched SVID
  spiffe_id,      \* PyNone or str(x509_svid.spiffe_id)
  cert_file, key_file, bundle_file,   \* NoFile or the name of a temp file
  \* the file system: name -> [st, gen]
  disk,
  \* constructor thread and background refresh thread
  pc, attempt, slept, ret, tb, snap, ctorStmt,
  \* history of the refreshes: the SVID the agent returned to the running
  \* attempt, whether a refresh has returned True, and the seconds since the
  \* agent issued x509_svid (-1: none yet; it stops counting beyond ValidFor)
  fetched, succeeded, age,
  \* one reader of the handler (create_server_ssl_context / make_mtls_request)
  rd,
  \* BaseSPIFFEAgent: the allow-list, the last POST the server handled, the
  \* server that run() set up and the last GET a caller tried
  allowed_callers, http, srv, get,
  \* APIClient: the class attribute _mtls_handler, the handlers constructed so
  \* far and the threads that call get_mtls_handler
  api,
  \* serve_forever: the request the server thread is handling, the number of
  \* connections that wait in the listen queue, and how the request before the
  \* last one ended
  loop

credVars == <<agentUp, agentGen, faults, x509_svid, spiffe_id, cert_file,
              key_file, bundle_file, disk, pc, attempt, slept, ret, tb, snap,
              ctorStmt, fetched, succeeded, age>>
httpVars == <<allowed_callers, http, srv, get, api, loop>>
vars == <<credVars, rd, httpVars>>

\* ------------------------------------------------------------ file system
Absent == [st |-> "absent", gen |-> 0]
EmptyFile == [st |-> "empty", gen |-> 0]
Written_empty(g) == EmptyFile
Written(g) == [st |-> "written", gen |-> g]

Exists(f) == f # NoFile /\ disk[f].st # "absent"

\* tempfile.NamedTemporaryFile(delete=False): a name of that kind other than
\* the one the field holds
NewName(kind, cur) ==
  IF cur = NamePool[kind][1] THEN NamePool[kind][2] ELSE NamePool[kind][1]

\* the reader's locals once the handler's fields are cf, kf, bf
Held(r, cf, kf, bf) ==
  LET keep(n) == IF n \in {NoFile, cf, kf, bf} THEN n ELSE Gone
  IN [r EXCEPT !.c = keep(r.c), !.k = keep(r.k), !.b = keep(r.b)]

\* os.unlink(f.name) inside try/except: pass
Unlinked_kept(d, f) == d
Unlinked(d, f) == IF f = NoFile THEN d ELSE [d EXCEPT ![f] = Absent]

\* str(self.x509_svid.spiffe_id)
SpiffeIdOf(g) == IF g = 1 THEN "spiffe://td/svc-a" ELSE "spiffe://td/svc-b"

\* the credential a caller of the handler can see, and which of its files exist
Visible ==
  [svid |-> x509_svid, sid |-> spiffe_id, cert |-> cert_file, key |-> key_file,
   bundle |-> bundle_file,
   files |-> {f \in {cert_file, key_file, bundle_file} : Exists(f)}]

NoSnap == [svid |-> 0, sid |-> PyNone, cert |-> NoFile, key |-> NoFile,
           bundle |-> NoFile, files |-> {}]

\* ------------------------------------------------------------------- Init
\* no ssl context
NoCtx == [side |-> "none", verify_mode |-> "none", check_hostname |-> FALSE,
          minimum_version |-> "none", chain |-> Absent, ca |-> "none"]

\* the reader: its position and operation, the file names it read and what it
\* found in the files, its result; the context it builds and whether it logged a
\* warning (create_server_ssl_context); the scheme, the requests put on the
\* network, the outcome of the last one, the kind of server that got the payload
\* and what the caller gets (make_mtls_request, APIClient.post); whether it began
\* on a complete credential with no refresh running, and the SVID of that one
NoRead == [pc |-> "idle", op |-> "none", c |-> NoFile, k |-> NoFile, b |-> NoFile,
           oc |-> Absent, ok |-> Absent, ob |-> Absent, res |-> "none",
           ctx |-> NoCtx, warned |-> FALSE, scheme |-> "none", tries |-> 0,
           net |-> "none", delivered |-> "none", out |-> "none",
           quiet |-> FALSE, g0 |-> 0]

InitHandler ==
  /\ agentUp \in BOOLEAN
  /\ agentGen = 1
  /\ faults = 0
  /\ x509_svid = 0
  /\ spiffe_id = PyNone
  /\ cert_file = NoFile /\ key_file = NoFile /\ bundle_file = NoFile
  /\ disk = [f \in FileIds |-> Absent]
  /\ pc = [t \in Threads |-> IF t = "ctor" THEN "stmt" ELSE "unstarted"]
  /\ attempt = [t \in Threads |-> 0]
  /\ slept = [t \in Threads |-> <<>>]
  /\ ret = [t \in Threads |-> "none"]
  /\ tb = [t \in Threads |-> 0]
  /\ snap = [t \in Threads |-> NoSnap]
  /\ ctorStmt = 1
  /\ fetched = [t \in Threads |-> 0]
  /\ succeeded = FALSE
  /\ age = -1
  /\ rd = NoRead

\* ------------------------------------------------------------ environment
AgentToggle ==
  /\ agentUp' = ~agentUp
  /\ UNCHANGED <<agentGen, faults, x509_svid, spiffe_id, cert_file, key_file,
                 bundle_file, disk, pc, attempt, slept, ret, tb, snap, ctorStmt, rd,
                 fetched, succeeded, age>>
  /\ UNCHANGED httpVars

AgentRotate ==
  /\ agentUp /\ agentGen < MaxGen
  /\ agentGen' = agentGen + 1
  /\ UNCHANGED <<agentUp, faults, x509_svid, spiffe_id, cert_file, key_file,
                 bundle_file, disk, pc, attempt, slept, ret, tb, snap, ctorStmt, rd,
                 fetched, succeeded, age>>
  /\ UNCHANGED httpVars

\* the agent goes away and stays away
AgentStop ==
  /\ agentUp
  /\ agentUp' = FALSE
  /\ UNCHANGED <<agentGen, faults, x509_svid, spiffe_id, cert_file, key_file,
                 bundle_file, disk, pc, attempt, slept, ret, tb, snap, ctorStmt, rd,
                 fetched, succeeded, age>>
  /\ UNCHANGED httpVars

\* ------------------------------------------------- SPIFFEMTLSHandler.__init__
\* the statements of __init__ after the fields are initialised
CtorProgram_threadFirst == <<"start_thread", "refresh">>
CtorProgram == <<"refresh", "start_thread">>

\* where the caller of _refresh_certificates continues
RefreshLoopNext_once == "stopped"
RefreshLoopNext == "sleep"

\* for attempt in range(1, max_attempts + 1) ... if attempt < max_attempts: sleep
SleepsAfter(a) == a < max_attempts

\* time.sleep(2 ** attempt)
Backoff_linear(a) == 2 * a
Backoff(a) == 2 ^ a

RefreshPcs == {"r_svid", "r_bundle", "w_unlink", "w_cert_new", "w_cert_write",
               "w_key_new", "w_key_write", "w_bundle_new", "w_bundle_write",
               "r_except"}
FaultPcs == {"w_cert_new", "w_cert_write", "w_key_new", "w_key_write",
             "w_bundle_new", "w_bundle_write"}

InRefresh(t) == pc[t] \in RefreshPcs

CallEnabled(t) ==
  \/ t = "ctor" /\ pc[t] = "stmt" /\ CtorProgram[ctorStmt] = "refresh"
  \/ t = "bg" /\ pc[t] = "sleep"

\* enter _refresh_certificates: first iteration of the for loop
CallRefresh(t) ==
  /\ CallEnabled(t)
  /\ pc' = [pc EXCEPT ![t] = "r_svid"]
  /\ attempt' = [attempt EXCEPT ![t] = 1]
  /\ slept' = [slept EXCEPT ![t] = <<>>]
  /\ ret' = [ret EXCEPT ![t] = "none"]
  /\ snap' = [snap EXCEPT ![t] = Visible]
  /\ UNCHANGED <<agentUp, agentGen, faults, x509_svid, spiffe_id, cert_file,
                 key_file, bundle_file, disk, tb, ctorStmt, rd>>

\* with WorkloadApiClient() as client: self.x509_svid = client.fetch_x509_svid()
\*                                     self.spiffe_id = str(self.x509_svid.spiffe_id)
FetchSvid(t) ==
  /\ pc[t] = "r_svid"
  /\ IF agentUp
       THEN /\ x509_svid' = agentGen
            /\ spiffe_id' = SpiffeIdOf(agentGen)
            /\ pc' = [pc EXCEPT ![t] = "r_bundle"]
       ELSE /\ pc' = [pc EXCEPT ![t] = "r_except"]
            /\ UNCHANGED <<x509_svid, spiffe_id>>
  /\ UNCHANGED <<agentUp, agentGen, faults, cert_file, key_file, bundle_file,
                 disk, attempt, slept, ret, tb, snap, ctorStmt, rd>>

\* the objects fetch_x509_bundles can return (py-spiffe versions vary): one with
\* a _bundles dict, which holds authorities or is empty; one with only
\* get_bundle_for_trust_domain, which returns a bundle, returns None or raises;
\* one with neither
BundleSets == {"bundles_ca", "bundles_empty", "lookup_ca", "lookup_none",
               "lookup_raises", "neither"}

\* Method 1 and Method 2 of _write_cert_files: the generation of the CA
\* certificates they write to bundle_file, 0 when they write none
AuthoritiesWritten(b, g) ==
  IF b \in {"bundles_ca", "bundles_empty"}
    THEN (IF b = "bundles_ca" THEN g ELSE 0)
    ELSE IF b \in {"lookup_ca", "lookup_none", "lookup_raises"}
      THEN (IF b = "lookup_ca" THEN g ELSE 0)
      ELSE 0

\* trust_bundle = client.fetch_x509_bundles()
FetchBundles(t) ==
  /\ pc[t] = "r_bundle"
  /\ IF agentUp
       THEN \E b \in BundleSets :
              LET abnormal == AuthoritiesWritten(b, agentGen) = 0
              IN /\ abnormal => faults < MaxFaults
                 /\ faults' = IF abnormal THEN faults + 1 ELSE faults
                 /\ tb' = [tb EXCEPT ![t] = AuthoritiesWritten(b, agentGen)]
                 /\ pc' = [pc EXCEPT ![t] = "w_unlink"]
       ELSE /\ pc' = [pc EXCEPT ![t] = "r_except"]
            /\ UNCHANGED <<tb, faults>>
  /\ UNCHANGED <<agentUp, agentGen, x509_svid, spiffe_id, cert_file,
                 key_file, bundle_file, disk, attempt, slept, ret, snap, ctorStmt, rd>>

\* _write_cert_files: cleanup of the old files
UnlinkOld(t) ==
  /\ pc[t] = "w_unlink"
  /\ disk' = Unlinked(Unlinked(Unlinked(disk, cert_file), key_file), bundle_file)
  /\ pc' = [pc EXCEPT ![t] = "w_cert_new"]
  /\ UNCHANGED <<agentUp, agentGen, faults, x509_svid, spiffe_id, cert_file,
                 key_file, bundle_file, attempt, slept, ret, tb, snap, ctorStmt, rd>>

\* self.cert_file = tempfile.NamedTemporaryFile(...)
CertNew(t) ==
  /\ pc[t] = "w_cert_new"
  /\ cert_file' = NewName("cert", cert_file)
  /\ disk' = [disk EXCEPT ![NewName("cert", cert_file)] = EmptyFile]
  /\ rd' = Held(rd, cert_file', key_file, bundle_file)
  /\ pc' = [pc EXCEPT ![t] = "w_cert_write"]
  /\ UNCHANGED <<agentUp, agentGen, faults, x509_svid, spiffe_id, key_file,
                 bundle_file, attempt, slept, ret, tb, snap, ctorStmt>>

\* self.cert_file.write(cert chain of self.x509_svid); flush()
CertWrite(t) ==
  /\ pc[t] = "w_cert_write"
  /\ disk' = [disk EXCEPT ![cert_file] = Written(x509_svid)]
  /\ pc' = [pc EXCEPT ![t] = "w_key_new"]
  /\ UNCHANGED <<agentUp, agentGen, faults, x509_svid, spiffe_id, cert_file,
                 key_file, bundle_file, attempt, slept, ret, tb, snap, ctorStmt, rd>>

\* self.key_file = tempfile.NamedTemporaryFile(...)
KeyNew(t) ==
  /\ pc[t] = "w_key_new"
  /\ key_file' = NewName("key", key_file)
  /\ disk' = [disk EXCEPT ![NewName("key", key_file)] = EmptyFile]
  /\ rd' = Held(rd, cert_file, key_file', bundle_file)
  /\ pc' = [pc EXCEPT ![t] = "w_key_write"]
  /\ UNCHANGED <<agentUp, agentGen, faults, x509_svid, spiffe_id, cert_file,
                 bundle_file, attempt, slept, ret, tb, snap, ctorStmt>>

\* self.key_file.write(private key of self.x509_svid); flush()
KeyWrite(t) ==
  /\ pc[t] = "w_key_write"
  /\ disk' = [disk EXCEPT ![key_file] = Written(x509_svid)]
  /\ pc' = [pc EXCEPT ![t] = "w_bundle_new"]
  /\ UNCHANGED <<agentUp, agentGen, faults, x509_svid, spiffe_id, cert_file,
                 key_file, bundle_file, attempt, slept, ret, tb, snap, ctorStmt, rd>>

\* self.bundle_file = tempfile.NamedTemporaryFile(...)
BundleNew(t) ==
  /\ pc[t] = "w_bundle_new"
  /\ bundle_file' = NewName("bundle", bundle_file)
  /\ disk' = [disk EXCEPT ![NewName("bundle", bundle_file)] = EmptyFile]
  /\ rd' = Held(rd, cert_file, key_file, bundle_file')
  /\ pc' = [pc EXCEPT ![t] = "w_bundle_write"]
  /\ UNCHANGED <<agentUp, agentGen, faults, x509_svid, spiffe_id, cert_file,
                 key_file, attempt, slept, ret, tb, snap, ctorStmt>>

\* the authorities found are written, self.bundle_file.flush(); back in
\* _refresh_certificates: log and return True
BundleWrite(t) ==
  /\ pc[t] = "w_bundle_write"
  /\ disk' = [disk EXCEPT ![bundle_file] = IF tb[t] = 0 THEN EmptyFile ELSE Written(tb[t])]
  /\ ret' = [ret EXCEPT ![t] = "True"]
  /\ pc' = [pc EXCEPT ![t] = "r_ret"]
  /\ UNCHANGED <<agentUp, agentGen, faults, x509_svid, spiffe_id, cert_file,
                 key_file, bundle_file, attempt, slept, tb, snap, ctorStmt, rd>>

\* a statement of _write_cert_files that creates or writes a file raises
WriteFault(t) ==
  /\ pc[t] \in FaultPcs
  /\ faults < MaxFaults
  /\ faults' = faults + 1
  /\ pc' = [pc EXCEPT ![t] = "r_except"]
  /\ UNCHANGED <<agentUp, agentGen, x509_svid, spiffe_id, cert_file, key_file,
                 bundle_file, disk, attempt, slept, ret, tb, snap, ctorStmt, rd>>

\* except Exception: log; sleep and take the next iteration, or fall out of the
\* loop and return False
Except(t) ==
  /\ pc[t] = "r_except"
  /\ slept' = [slept EXCEPT ![t] =
                 IF SleepsAfter(attempt[t]) THEN Append(@, Backoff(attempt[t])) ELSE @]
  /\ IF attempt[t] < max_attempts
       THEN /\ attempt' = [attempt EXCEPT ![t] = @ + 1]
            /\ snap' = [snap EXCEPT ![t] = Visible]
            /\ pc' = [pc EXCEPT ![t] = "r_svid"]
            /\ UNCHANGED ret
       ELSE /\ ret' = [ret EXCEPT ![t] = "False"]
            /\ pc' = [pc EXCEPT ![t] = "r_ret"]
            /\ UNCHANGED <<attempt, snap>>
  /\ UNCHANGED <<agentUp, agentGen, faults, x509_svid, spiffe_id, cert_file,
                 key_file, bundle_file, disk, tb, ctorStmt, rd>>

\* the caller of _refresh_certificates goes on (it ignores the result)
Return(t) ==
  /\ pc[t] = "r_ret"
  /\ IF t = "ctor"
       THEN /\ ctorStmt' = ctorStmt + 1
            /\ pc' = [pc EXCEPT ![t] = IF ctorStmt < Len(CtorProgram) THEN "stmt" ELSE "done"]
       ELSE /\ pc' = [pc EXCEPT ![t] = RefreshLoopNext]
            /\ UNCHANGED ctorStmt
  /\ attempt' = [attempt EXCEPT ![t] = 0]
  /\ slept' = [slept EXCEPT ![t] = <<>>]
  /\ ret' = [ret EXCEPT ![t] = "none"]
  /\ tb' = [tb EXCEPT ![t] = 0]
  /\ snap' = [snap EXCEPT ![t] = NoSnap]
  /\ UNCHANGED <<agentUp, agentGen, faults, x509_svid, spiffe_id, cert_file,
                 key_file, bundle_file, disk, rd>>

\* _start_refresh_thread: thread.start(); refresh_loop begins with time.sleep(1800)
StartThread ==
  /\ pc["ctor"] = "stmt" /\ CtorProgram[ctorStmt] = "start_thread"
  /\ ctorStmt' = ctorStmt + 1
  /\ pc' = [pc EXCEPT !["ctor"] = IF ctorStmt < Len(CtorProgram) THEN "stmt" ELSE "done",
                      !["bg"] = "sleep"]
  /\ UNCHANGED <<agentUp, agentGen, faults, x509_svid, spiffe_id, cert_file,
                 key_file, bundle_file, disk, attempt, slept, ret, tb, snap, rd>>

RefreshStep(t) ==
  \/ CallRefresh(t)
  \/ FetchSvid(t)
  \/ FetchBundles(t)
  \/ UnlinkOld(t)
  \/ CertNew(t)
  \/ CertWrite(t)
  \/ KeyNew(t)
  \/ KeyWrite(t)
  \/ BundleNew(t)
  \/ BundleWrite(t)
  \/ WriteFault(t)
  \/ Except(t)
  \/ Return(t)

\* the seconds thread t sleeps in this step: time.sleep(1800) before a refresh
\* of the loop, time.sleep(2 ** attempt) between two attempts
Elapsed(t) ==
  IF pc[t] = "sleep" /\ pc'[t] = "r_svid" THEN RefreshPeriod
  ELSE IF Len(slept'[t]) > Len(slept[t]) THEN slept'[t][Len(slept'[t])]
  ELSE 0

\* the history of a step of thread t: fetch_x509_svid returned a new SVID (its
\* lifetime begins), the call returned True, or time went by
Noted(t) ==
  LET issued == pc[t] = "r_svid" /\ pc'[t] = "r_bundle"
      later == age + Elapsed(t)
  IN /\ fetched' = [fetched EXCEPT ![t] = IF issued THEN x509_svid'
                                          ELSE IF pc[t] = "r_ret" THEN 0 ELSE @]
     /\ succeeded' = (succeeded \/ ret'[t] = "True")
     /\ age' = IF issued THEN 0
               ELSE IF age < 0 THEN age
               ELSE IF later > ValidFor THEN ValidFor + 1 ELSE later

\* the server of run() after a step of the refresh thread: refresh_loop and
\* _refresh_certificates assign fields of the handler and write files, they hold
\* no reference to the server or its socket
ServerAfterRefresh_reload(s) == IF s.ctx.side = "server" /\ cert_file' # NoFile THEN [s EXCEPT !.ctx.chain = disk'[cert_file']] ELSE s
ServerAfterRefresh(s) == s

CtorStep == (RefreshStep("ctor") \/ StartThread) /\ Noted("ctor") /\ UNCHANGED httpVars
BgStep ==
  /\ RefreshStep("bg") /\ Noted("bg")
  /\ srv' = ServerAfterRefresh(srv)
  /\ UNCHANGED <<allowed_callers, http, get, api, loop>>

NextRefresh ==
  \/ AgentToggle
  \/ AgentRotate
  \/ CtorStep
  \/ BgStep


\* --------------------------------------------- readers of the materialization
\* The handler is handed out when __init__ has returned.
Constructed == pc["ctor"] = "done"

\* the guard of the reader: create_server_ssl_context needs all three files,
\* make_mtls_request the certificate and the key
NotReadyFor(op) ==
  IF op = "server"
    THEN cert_file = NoFile \/ key_file = NoFile \/ bundle_file = NoFile
    ELSE cert_file = NoFile \/ key_file = NoFile

\* what the reader does when its guard finds the credential not ready:
\* create_server_ssl_context returns a default context, make_mtls_request raises
\* RuntimeError("Certificates not initialized")
NotReadyResult_raise(op) == "not_initialized"
NotReadyResult(op) == IF op = "server" THEN "fallback" ELSE "not_initialized"

\* ssl.create_default_context(purpose): Purpose.SERVER_AUTH (the default) gives a
\* context for client sockets that verifies the server, Purpose.CLIENT_AUTH a
\* context for server sockets that asks for no client certificate
DefaultContext(purpose) ==
  IF purpose = "SERVER_AUTH"
    THEN [side |-> "client", verify_mode |-> "CERT_REQUIRED", check_hostname |-> TRUE,
          minimum_version |-> "default", chain |-> Absent, ca |-> "system"]
    ELSE [side |-> "server", verify_mode |-> "CERT_NONE", check_hostname |-> FALSE,
          minimum_version |-> "default", chain |-> Absent, ca |-> "none"]

\* what the TLS library makes of the certificate and key files it was given
KeyPairLoads(oc, ok) ==
  oc.st = "written" /\ ok.st = "written" /\ oc.gen = ok.gen

\* no refresh is running and the certificate and the key of one SVID are on disk
Quiet ==
  /\ \A t \in Threads : ~InRefresh(t)
  /\ Exists(cert_file) /\ Exists(key_file)
  /\ KeyPairLoads(disk[cert_file], disk[key_file])

\* the first statements of create_server_ssl_context (op "server"),
\* make_mtls_request (op "client") and APIClient.post (op "post")
Begin(op) ==
  LET base == [NoRead EXCEPT !.op = op]
  IN CASE op = "server" ->
            IF NotReadyFor(op)
              THEN [base EXCEPT !.pc = "end", !.res = NotReadyResult(op),
                                !.warned = TRUE, !.ctx = DefaultContext("SERVER_AUTH")]
              ELSE [base EXCEPT !.pc = "name_c", !.ctx = DefaultContext("CLIENT_AUTH")]
       [] op = "client" ->
            IF NotReadyFor(op)
              THEN [base EXCEPT !.pc = "end", !.res = NotReadyResult(op), !.out = "raise"]
              ELSE [base EXCEPT !.pc = "name_c", !.scheme = "https"]
       [] op = "post" ->
            IF cert_file = NoFile
              THEN [base EXCEPT !.pc = "send", !.scheme = "http"]
            ELSE IF NotReadyFor("client")
              THEN [base EXCEPT !.pc = "post_ret", !.scheme = "https",
                                !.res = NotReadyResult("client"), !.out = "raise"]
              ELSE [base EXCEPT !.pc = "name_c", !.scheme = "https"]

\* the call has returned: its locals (the file names) are gone
Returned(r) == IF r.pc = "end" THEN [r EXCEPT !.c = NoFile, !.k = NoFile, !.b = NoFile] ELSE r

\* where the reader is when make_mtls_request is through: back in the try of
\* APIClient.post, or at its own caller
EndOf(r) == IF r.op = "post" THEN "post_ret" ELSE "end"

\* create_server_ssl_context / make_mtls_request / APIClient.post: the readiness
\* check
RdBegin(op) ==
  /\ Constructed
  /\ rd.pc \in {"idle", "end"}
  /\ rd' = Begin(op)
  /\ UNCHANGED credVars

\* the same for an outbound call, with the note whether it begins on a complete
\* credential while no refresh is running, and which SVID that credential is of
OutBegin(op) ==
  /\ Constructed
  /\ rd.pc \in {"idle", "end"}
  /\ rd' = [Begin(op) EXCEPT !.quiet = Quiet,
                             !.g0 = IF Quiet THEN disk[cert_file].gen ELSE 0]
  /\ UNCHANGED credVars

\* self.cert_file.name
RdNameCert ==
  /\ rd.pc = "name_c"
  /\ rd' = [rd EXCEPT !.c = cert_file, !.pc = "name_k"]
  /\ UNCHANGED credVars

\* self.key_file.name
RdNameKey ==
  /\ rd.pc = "name_k"
  /\ rd' = [rd EXCEPT !.k = key_file, !.pc = "load_c"]
  /\ UNCHANGED credVars

\* load_cert_chain opens the certificate file
RdLoadCert ==
  /\ rd.pc = "load_c"
  /\ rd' = Returned(
           IF disk[rd.c].st = "written"
                 THEN [rd EXCEPT !.oc = disk[rd.c], !.pc = "load_k"]
                 ELSE [rd EXCEPT !.oc = disk[rd.c], !.pc = EndOf(rd), !.res = "load_error",
                                 !.out = "raise"])
  /\ UNCHANGED credVars

\* load_cert_chain opens the key file and checks it against the certificate
RdLoadKey ==
  /\ rd.pc = "load_k"
  /\ rd' = Returned(
           IF KeyPairLoads(rd.oc, disk[rd.k])
                 THEN IF rd.op = "server"
                        THEN [rd EXCEPT !.ok = disk[rd.k], !.pc = "name_b",
                                        !.ctx.chain = rd.oc]
                        ELSE [rd EXCEPT !.ok = disk[rd.k], !.pc = "send", !.res = "loaded"]
                 ELSE [rd EXCEPT !.ok = disk[rd.k], !.pc = EndOf(rd), !.res = "load_error",
                                 !.out = "raise"])
  /\ UNCHANGED credVars

\* self.bundle_file.name
RdNameBundle ==
  /\ rd.pc = "name_b"
  /\ rd' = [rd EXCEPT !.b = bundle_file, !.pc = "load_b"]
  /\ UNCHANGED credVars

\* load_verify_locations(cafile=...); verify_mode = CERT_REQUIRED;
\* minimum_version = TLSv1_2; return context
RdLoadBundle ==
  /\ rd.pc = "load_b"
  /\ rd' = Returned(
           IF disk[rd.b].st = "written"
                 THEN [rd EXCEPT !.ob = disk[rd.b], !.pc = "end", !.res = "loaded",
                                 !.ctx.ca = "bundle", !.ctx.verify_mode = "CERT_REQUIRED",
                                 !.ctx.minimum_version = "TLSv1_2"]
                 ELSE [rd EXCEPT !.ob = disk[rd.b], !.pc = "end", !.res = "load_error",
                                 !.out = "raise"])
  /\ UNCHANGED credVars

\* ------------------------------------------------------ the outbound request
\* the servers a request can go to: whether the certificate of the server chains
\* to the trust bundle, and what the server does
Servers ==
  [cert : {"trusted", "untrusted"},
   does : {"answers", "refuses", "rejects_client", "hangs"}]

\* requests.post(..., verify=False, ...)
verify == FALSE

\* the check of the server certificate that requests makes under verify
ServerAccepted(v, cert) == v => cert = "trusted"

\* one requests.post to server s: the connection, the handshake (https), the
\* request with its payload, the wait for the response
Exchange(scheme, s) ==
  IF s.does = "refuses" THEN [net |-> "refused", delivered |-> "none"]
  ELSE IF scheme = "https" /\ ~ServerAccepted(verify, s.cert)
    THEN [net |-> "handshake", delivered |-> "none"]
  ELSE IF scheme = "https" /\ s.does = "rejects_client"
    THEN [net |-> "handshake", delivered |-> "none"]
  ELSE IF s.does = "hangs" THEN [net |-> "timeout", delivered |-> s.cert]
  ELSE [net |-> "response", delivered |-> s.cert]

\* return requests.post(...): one request, its exception is not caught here
RdSend ==
  /\ rd.pc = "send"
  /\ \E s \in Servers :
       LET x == Exchange(rd.scheme, s)
       IN rd' = Returned(
                 [rd EXCEPT !.tries = @ + 1, !.net = x.net, !.delivered = x.delivered,
                            !.pc = IF rd.scheme = "https" THEN EndOf(rd) ELSE "end",
                            !.out = IF x.net = "response" THEN "response" ELSE "raise"])
  /\ UNCHANGED credVars

\* APIClient.post, except Exception: print(...); return None
PostOnFailure_fallback(r) == [r EXCEPT !.pc = "send", !.scheme = "http"]
PostOnFailure(r) == [r EXCEPT !.pc = "end", !.out = "None"]

\* APIClient.post after handler.make_mtls_request: return its response, or catch
\* what it raised
PostReturn ==
  /\ rd.pc = "post_ret"
  /\ rd' = Returned(
           IF rd.res = "loaded" /\ rd.net = "response"
                 THEN [rd EXCEPT !.pc = "end"]
                 ELSE PostOnFailure(rd))
  /\ UNCHANGED credVars

RdStep ==
  /\ \/ \E op \in {"server", "client"} : RdBegin(op)
     \/ RdNameCert
     \/ RdNameKey
     \/ RdLoadCert
     \/ RdLoadKey
     \/ RdNameBundle
     \/ RdLoadBundle
     \/ RdSend
  /\ UNCHANGED httpVars

\* make_mtls_request and APIClient.post
OutStep ==
  /\ \/ \E op \in {"client", "post"} : OutBegin(op)
     \/ RdNameCert
     \/ RdNameKey
     \/ RdLoadCert
     \/ RdLoadKey
     \/ RdSend
     \/ PostReturn
  /\ UNCHANGED httpVars

\* readers beside the refreshes of an agent that stays as it was at startup
NextReaders ==
  \/ AgentRotate
  \/ CtorStep
  \/ BgStep
  \/ RdStep

\* outbound calls beside the refreshes of an agent that may go away
NextOutbound ==
  \/ AgentStop
  \/ CtorStep
  \/ BgStep
  \/ OutStep

\* ------------------------------------------------------ AgentHandler.do_POST
\* SPIFFE ids of callers, and the URI and DNS names a peer certificate can carry
PeerA == "spiffe://td/a"
PeerB == "spiffe://td/b"
PeerC == "spiffe://td/c"
SpiffeUris == {PeerA, PeerB, PeerC}

\* values of allowed_callers
AllowLists == {{}, {PeerA}, {PeerA, PeerC}}

\* the connection of a request: plain socket (no getpeercert), TLS without a
\* client certificate, or TLS with a certificate and its subjectAltName list
Conns ==
  {[tls |-> FALSE, cert |-> FALSE, san |-> <<>>],
   [tls |-> TRUE, cert |-> FALSE, san |-> <<>>]} \cup
  {[tls |-> TRUE, cert |-> TRUE, san |-> n] :
     n \in {<<>>,
            << <<"URI", PeerA>> >>,
            << <<"URI", PeerB>> >>,
            << <<"DNS", "svc.local">>, <<"URI", PeerC>> >>,
            << <<"URI", "https://td/a">>, <<"URI", PeerB>> >>,
            << <<"URI", "https://td/a">> >>}}

\* os.getenv('DEV_MODE')
DevModeValues == {PyNone, "true", "false"}

\* the Content-Length header (PyNone: no header) and the bytes of the body
LengthHeaders == {PyNone, "0", "17", "abc"}
Bodies == {"{\"user_id\": \"u1\"}", "{\"user_id\": "}

\* what handle_request does: it returns a result, or raises with a message
Callbacks ==
  {[raises |-> FALSE, val |-> "result"],
   [raises |-> FALSE, val |-> "result_with_decimal"],
   [raises |-> TRUE, val |-> "boom"]}

Requests ==
  [conn : Conns, dev : DevModeValues, length : LengthHeaders, body : Bodies,
   cb : Callbacks]

NoRequest ==
  [handled |-> FALSE,
   req |-> [conn |-> [tls |-> FALSE, cert |-> FALSE, san |-> <<>>], dev |-> PyNone,
            length |-> PyNone, body |-> "", cb |-> [raises |-> FALSE, val |-> ""]],
   peer |-> PyNone, authz |-> "none", warned |-> FALSE, calls |-> 0,
   sent |-> <<>>, raised |-> PyNone]

\* f"{x}"
PyStr(x) == IF x = PyNone THEN "None" ELSE x

\* next((uri for typ, uri in san if typ == 'URI' and uri.startswith('spiffe://')), None)
RECURSIVE FirstSpiffeUri(_)
FirstSpiffeUri(san) ==
  IF san = <<>> THEN PyNone
  ELSE IF Head(san)[1] = "URI" /\ Head(san)[2] \in SpiffeUris THEN Head(san)[2]
  ELSE FirstSpiffeUri(Tail(san))

\* peer_id of do_POST
ExtractPeer(conn) ==
  IF conn.tls /\ conn.cert THEN FirstSpiffeUri(conn.san) ELSE PyNone

\* the authorization step of do_POST
Authorize_devAny(allow, peer, dev) ==
  IF allow # {} /\ peer \notin allow
    THEN IF dev = "true" THEN "permit_dev" ELSE "deny"
    ELSE "permit"
Authorize(allow, peer, dev) ==
  IF allow # {} /\ peer \notin allow
    THEN IF peer = PyNone /\ dev = "true" THEN "permit_dev" ELSE "deny"
    ELSE "permit"

\* f"Unauthorized: {peer_id}"
DenyMessage_noPeer(peer) == <<"Unauthorized">>
DenyMessage(peer) == <<"Unauthorized: ", PyStr(peer)>>

\* what goes on the wire: a status line with headers, or body bytes
Head_(code, reason) == [kind |-> "head", code |-> code, text |-> reason]
Body_(text) == [kind |-> "body", code |-> 0, text |-> text]

\* send_error(code, message): the message is the reason phrase and is in the page
SendError(code, message) == <<Head_(code, message), Body_(<<"Error code: ">> \o message)>>

\* int(self.headers.get('Content-Length', 0))
ParseLength(h) ==
  CASE h = PyNone -> [ok |-> TRUE, n |-> 0]
    [] h = "0"    -> [ok |-> TRUE, n |-> 0]
    [] h = "17"   -> [ok |-> TRUE, n |-> 17]
    [] OTHER      -> [ok |-> FALSE, n |-> 0]

\* json.loads(bytes)
JsonLoads(b) ==
  IF b = "{\"user_id\": \"u1\"}" THEN [ok |-> TRUE, val |-> "data_u1"]
  ELSE [ok |-> FALSE, val |-> ""]

\* json.dumps(value): a result holding a Decimal or datetime (a database row) is
\* not serializable
JsonDumps(v) ==
  IF v = "result_with_decimal" THEN [ok |-> FALSE, text |-> <<>>]
  ELSE [ok |-> TRUE, text |-> <<"json:", v>>]

\* json.dumps({"error": message})
ErrorJson(message) == <<"json:", "{error: ", message, "}">>

\* _send_json(code, data): the headers are sent before the data is encoded
SendJson(code, dumped) ==
  IF dumped.ok THEN [sent |-> <<Head_(code, <<>>), Body_(dumped.text)>>, raised |-> PyNone]
  ELSE [sent |-> <<Head_(code, <<>>)>>, raised |-> "TypeError"]

\* try: result = agent.handle_request(...); self._send_json(200, result)
\* except Exception as e: self._send_json(500, {"error": str(e)})
Delegate(o) ==
  LET cb == o.req.cb
      first == SendJson(200, JsonDumps(cb.val))
      msg == IF cb.raises THEN cb.val ELSE "not JSON serializable"
      err == SendJson(500, [ok |-> TRUE, text |-> ErrorJson(msg)])
  IN IF cb.raises
       THEN [o EXCEPT !.calls = @ + 1, !.sent = @ \o err.sent]
     ELSE IF first.raised # PyNone
       THEN [o EXCEPT !.calls = @ + 1, !.sent = @ \o first.sent \o err.sent]
     ELSE [o EXCEPT !.calls = @ + 1, !.sent = @ \o first.sent]

\* length = int(...); data = json.loads(self.rfile.read(length)) if length else {}
\* neither is inside a try: an exception leaves do_POST
ReadAndDelegate(o) ==
  LET len == ParseLength(o.req.length)
  IN IF ~len.ok THEN [o EXCEPT !.raised = "ValueError"]
     ELSE IF len.n # 0 /\ ~JsonLoads(o.req.body).ok
       THEN [o EXCEPT !.raised = "JSONDecodeError"]
     ELSE Delegate(o)

\* self.send_error(403, ...); return
Denied_noReturn(o) ==
  ReadAndDelegate([o EXCEPT !.sent = SendError(403, DenyMessage(o.peer))])
Denied(o) == [o EXCEPT !.sent = SendError(403, DenyMessage(o.peer))]

DoPost(allow, rq) ==
  LET peer == ExtractPeer(rq.conn)
      authz == Authorize(allow, peer, rq.dev)
      o == [NoRequest EXCEPT !.handled = TRUE, !.req = rq, !.peer = peer,
                             !.authz = authz, !.warned = (authz = "permit_dev")]
  IN IF authz = "deny" THEN Denied(o) ELSE ReadAndDelegate(o)

\* the server handles one POST
do_POST ==
  /\ \E rq \in Requests : http' = DoPost(allowed_callers, rq)
  /\ UNCHANGED <<credVars, rd, allowed_callers, srv, get, api, loop>>

\* what the client reads: the first status line, and everything after its headers
ClientStatus(o) == IF o.sent = <<>> THEN 0 ELSE Head(o.sent).code
ClientBody(o) == IF o.sent = <<>> THEN <<>> ELSE Tail(o.sent)

\* ------------------------------------------------------ BaseSPIFFEAgent.run
\* self.service_name
service_name == "risk-scorer"

\* the server of run(): where run is, the ssl context its listening socket was
\* wrapped in (NoCtx: a plain socket), and the levels run logged at
NoServer == [pc |-> "init", ctx |-> NoCtx, log |-> <<>>]

\* context.wrap_socket(server.socket, server_side=True): the ssl module raises
\* ValueError("check_hostname requires server_hostname") when the context checks
\* host names
WrapSocket(ctx) == IF ctx.check_hostname THEN "ValueError" ELSE "ok"

\* server = HTTPServer(('0.0.0.0', self.port), handler): binds, or raises OSError
\* out of run
RunBind ==
  /\ Constructed
  /\ srv.pc = "init"
  /\ \E bound \in BOOLEAN :
       srv' = [srv EXCEPT !.pc = IF bound THEN "bound" ELSE "bind_failed"]
  /\ UNCHANGED <<credVars, rd, allowed_callers, http, get, api, loop>>

\* if self.mtls and self.mtls.cert_file: ... create_server_ssl_context() begins;
\* else: warning, serve_forever on the plain socket
RunContext ==
  /\ srv.pc = "bound"
  /\ rd.pc \in {"idle", "end"}
  /\ IF cert_file # NoFile
       THEN /\ rd' = Begin("server")
            /\ srv' = [srv EXCEPT !.pc = "ctx"]
       ELSE /\ srv' = [srv EXCEPT !.pc = "serving", !.log = Append(@, "warning")]
            /\ UNCHANGED rd
  /\ UNCHANGED <<credVars, allowed_callers, http, get, api, loop>>

\* except Exception as e: self.logger.error(...); run goes on to serve_forever
WrapFailed_fatal(s) == [s EXCEPT !.pc = "wrap_failed", !.log = Append(@, "error")]
WrapFailed(s) == [s EXCEPT !.pc = "serving", !.log = Append(@, "error")]

\* server.socket = <context>.wrap_socket(server.socket, server_side=True); info
\* except Exception: error; then serve_forever either way
RunWrap ==
  /\ srv.pc = "ctx"
  /\ rd.pc = "end"
  /\ srv' = IF rd.res \in {"loaded", "fallback"} /\ WrapSocket(rd.ctx) = "ok"
              THEN [srv EXCEPT !.pc = "serving", !.ctx = rd.ctx, !.log = Append(@, "info")]
              ELSE WrapFailed(srv)
  /\ UNCHANGED <<credVars, rd, allowed_callers, http, get, api, loop>>

RunStep ==
  \/ RunBind
  \/ RunContext
  \/ (RdNameCert \/ RdNameKey \/ RdLoadCert \/ RdLoadKey \/ RdNameBundle \/ RdLoadBundle)
       /\ srv.pc = "ctx" /\ UNCHANGED httpVars
  \/ RunWrap

\* ------------------------------------------------------- AgentHandler.do_GET
\* who connects: a plain client, a TLS client without a certificate, or a TLS
\* client with a certificate that chains to the bundle of the server or does not
Callers ==
  {[tls |-> FALSE, cert |-> "none", id |-> PyNone],
   [tls |-> TRUE, cert |-> "none", id |-> PyNone],
   [tls |-> TRUE, cert |-> "trusted", id |-> PeerA],
   [tls |-> TRUE, cert |-> "trusted", id |-> PeerB],
   [tls |-> TRUE, cert |-> "untrusted", id |-> PeerA]}

Paths == {"/health", "/metrics"}

NoGet == [handled |-> FALSE, caller |-> [tls |-> FALSE, cert |-> "none", id |-> PyNone],
          path |-> "", reached |-> FALSE, calls |-> 0, sent |-> <<>>]

\* accept() on the listening socket: a plain socket takes plain clients; a
\* socket wrapped in ctx does the TLS handshake and, under CERT_REQUIRED, wants
\* a client certificate that verifies against the loaded authorities
Handshake(ctx, caller) ==
  IF ctx = NoCtx THEN ~caller.tls
  ELSE /\ caller.tls
       /\ ctx.verify_mode = "CERT_REQUIRED" => caller.cert = "trusted"

\* json.dumps({"status": "healthy", "service": ..., "spiffe_id": ...})
HealthJson(sid) ==
  <<"json:", "healthy", service_name, IF sid = PyNone THEN "null" ELSE sid>>

\* do_GET for a connection that was accepted
DoGet(caller, path) ==
  LET o == [NoGet EXCEPT !.handled = TRUE, !.caller = caller, !.path = path]
  IN IF ~Handshake(srv.ctx, caller) THEN o
     ELSE IF path = "/health"
       THEN [o EXCEPT !.reached = TRUE,
                      !.sent = SendJson(200, [ok |-> TRUE, text |-> HealthJson(spiffe_id)]).sent]
     ELSE [o EXCEPT !.reached = TRUE, !.sent = SendError(404, <<"Not Found">>)]

\* a caller connects to the running server and sends a GET
do_GET ==
  /\ srv.pc = "serving"
  /\ \E caller \in Callers, path \in Paths : get' = DoGet(caller, path)
  /\ UNCHANGED <<credVars, rd, allowed_callers, http, srv, api, loop>>

\* ------------------------------------------- APIClient.get_mtls_handler
\* threads of the LMS process that call APIClient.get_mtls_handler, directly or
\* first thing in APIClient.post
ApiThreads == 1..MaxApiThreads

\* _mtls_handler = None; handlers are numbered as they are constructed, 0 is None
NoApi == [mtls_handler |-> 0, created |-> 0,
          th |-> [t \in ApiThreads |-> [pc |-> "idle", via |-> "none", new |-> 0, got |-> 0]]]

\* a thread calls get_mtls_handler or post
ApiCall(t) ==
  /\ api.th[t].pc = "idle"
  /\ \E via \in {"get_mtls_handler", "post"} :
       api' = [api EXCEPT !.th[t].pc = "test", !.th[t].via = via]

\* what the test of the class attribute lets through to the constructor
NeedsHandler(a) == a.mtls_handler = 0

\* if cls._mtls_handler is None:
ApiTest(t) ==
  /\ api.th[t].pc = "test"
  /\ api' = [api EXCEPT !.th[t].pc = IF NeedsHandler(api) THEN "new" ELSE "ret"]

\* SPIFFEMTLSHandler(): the constructor refreshes (up to 5 attempts and 30 s of
\* sleep) and starts the refresh thread of the new handler; or it raises, and
\* get_mtls_handler prints a warning and returns None
ApiConstruct(t) ==
  /\ api.th[t].pc = "new"
  /\ \E raised \in BOOLEAN :
       api' = IF raised
                THEN [api EXCEPT !.th[t].pc = "done", !.th[t].got = 0]
                ELSE [api EXCEPT !.created = @ + 1, !.th[t].new = api.created + 1,
                                 !.th[t].pc = "assign"]

\* cls._mtls_handler = <the new handler>
ApiAssign(t) ==
  /\ api.th[t].pc = "assign"
  /\ api' = [api EXCEPT !.mtls_handler = api.th[t].new, !.th[t].pc = "ret"]

\* return cls._mtls_handler
ApiReturn(t) ==
  /\ api.th[t].pc = "ret"
  /\ api' = [api EXCEPT !.th[t].pc = "done", !.th[t].got = api.mtls_handler]

ApiStep ==
  /\ \E t \in ApiThreads :
       ApiCall(t) \/ ApiTest(t) \/ ApiConstruct(t) \/ ApiAssign(t) \/ ApiReturn(t)
  /\ UNCHANGED <<credVars, rd, allowed_callers, http, srv, get, loop>>

\* ------------------------------------------------- server.serve_forever()
\* the requests that reach a running service: POSTs with a body, over a plain
\* connection or from the peers A and B, and the health probe
PlainConn == [tls |-> FALSE, cert |-> FALSE, san |-> <<>>]
ConnOf(peer) == [tls |-> TRUE, cert |-> TRUE, san |-> << <<"URI", peer>> >>]

LoopPosts ==
  {rq \in Requests :
     /\ rq.dev = PyNone /\ rq.length = "17" /\ rq.cb.val \in {"result", "boom"}
     /\ rq.conn \in {PlainConn, ConnOf(PeerA), ConnOf(PeerB)}
     /\ rq.cb.raises => JsonLoads(rq.body).ok
     /\ rq.conn = ConnOf(PeerB) => (JsonLoads(rq.body).ok /\ ~rq.cb.raises)}

NoLoopRequest == [m |-> "none", rq |-> NoRequest.req, caller |-> NoGet.caller, path |-> ""]

LoopRequests ==
  {[NoLoopRequest EXCEPT !.m = "POST", !.rq = rq] : rq \in LoopPosts} \cup
  {[NoLoopRequest EXCEPT !.m = "GET", !.caller = c, !.path = "/health"] :
     c \in {k \in Callers : k.cert = "none" \/ (k.cert = "trusted" /\ k.id = PeerA)}}

NoLoop == [running |-> NoLoopRequest, waiting |-> 0, prev |-> "none"]

\* the client speaks the protocol of the listening socket and passes its handshake
Fits(q) ==
  IF q.m = "GET" THEN Handshake(srv.ctx, q.caller)
  ELSE /\ q.rq.conn.tls <=> srv.ctx # NoCtx
       /\ srv.ctx.verify_mode = "CERT_REQUIRED" => q.rq.conn.cert

\* a client connects: the connection waits in the listen queue of the socket
Arrive ==
  /\ srv.pc = "serving"
  /\ loop.waiting < MaxPending
  /\ loop' = [loop EXCEPT !.waiting = @ + 1]
  /\ UNCHANGED <<credVars, rd, allowed_callers, http, srv, get, api>>

\* HTTPServer is socketserver.TCPServer without a threading mix-in:
\* serve_forever accepts a connection and runs its handler in the same thread,
\* so it accepts the next one when the handler has returned; what the client
\* asks is known once the handler reads it
Accept ==
  /\ srv.pc = "serving"
  /\ loop.running = NoLoopRequest
  /\ loop.waiting > 0
  /\ \E q \in LoopRequests :
       Fits(q) /\ loop' = [loop EXCEPT !.running = q, !.waiting = @ - 1]
  /\ UNCHANGED <<credVars, rd, allowed_callers, http, srv, get, api>>

\* how a request ended
Outcome(o) ==
  IF ~o.handled THEN "ok"
  ELSE IF o.authz = "deny" THEN "unauthorized"
  ELSE IF o.calls = 0 /\ o.raised # PyNone THEN "malformed"
  ELSE IF o.req.cb.raises THEN "callback_raised"
  ELSE "ok"

\* the server after a handler ended as out: an exception that leaves do_POST is
\* an Exception, which the serve_forever loop reports and drops with the connection
AfterHandler_crash(s, out) == IF out = "malformed" THEN [s EXCEPT !.pc = "crashed"] ELSE s
AfterHandler(s, out) == s

\* the handler of the accepted connection runs to its end (whenever the
\* callback, the client that sends the body, or the handshake let it)
Finish ==
  /\ loop.running # NoLoopRequest
  /\ LET q == loop.running
         o == DoPost(allowed_callers, q.rq)
         out == IF q.m = "POST" THEN Outcome(o) ELSE "ok"
     IN /\ http' = IF q.m = "POST" THEN o ELSE NoRequest
        /\ get' = IF q.m = "GET" THEN DoGet(q.caller, q.path) ELSE NoGet
        /\ srv' = AfterHandler(srv, out)
        /\ loop' = [loop EXCEPT !.running = NoLoopRequest,
                                !.prev = IF http.handled \/ get.handled
                                           THEN Outcome(http) ELSE "none"]
  /\ UNCHANGED <<credVars, rd, allowed_callers, api>>

\* the context run() builds from the first credential
StartupCtx ==
  [side |-> "server", verify_mode |-> "CERT_REQUIRED", check_hostname |-> FALSE,
   minimum_version |-> "TLSv1_2", chain |-> [st |-> "written", gen |-> 1], ca |-> "bundle"]

\* a service that run() has started: its handler was constructed, the refresh
\* thread sleeps, and run() serves under mTLS with the first credential, or in
\* plaintext after a construction that got no credential; the agent is away, so
\* that the refreshes of the loop fail
InitServing ==
  /\ agentUp = FALSE
  /\ agentGen = 1
  /\ faults = 0
  /\ pc = [t \in Threads |-> IF t = "ctor" THEN "done" ELSE "sleep"]
  /\ attempt = [t \in Threads |-> 0]
  /\ slept = [t \in Threads |-> <<>>]
  /\ ret = [t \in Threads |-> "none"]
  /\ tb = [t \in Threads |-> 0]
  /\ snap = [t \in Threads |-> NoSnap]
  /\ ctorStmt = Len(CtorProgram) + 1
  /\ fetched = [t \in Threads |-> 0]
  /\ \/ /\ x509_svid = 1
        /\ spiffe_id = SpiffeIdOf(1)
        /\ cert_file = NamePool["cert"][1]
        /\ key_file = NamePool["key"][1]
        /\ bundle_file = NamePool["bundle"][1]
        /\ disk = [f \in FileIds |->
                    IF f \in {NamePool["cert"][1], NamePool["key"][1], NamePool["bundle"][1]}
                      THEN [st |-> "written", gen |-> 1] ELSE Absent]
        /\ succeeded = TRUE
        /\ age = 0
        /\ rd = [NoRead EXCEPT !.pc = "end", !.op = "server", !.res = "loaded",
                               !.oc = [st |-> "written", gen |-> 1],
                               !.ok = [st |-> "written", gen |-> 1],
                               !.ob = [st |-> "written", gen |-> 1],
                               !.ctx = StartupCtx]
        /\ srv = [pc |-> "serving", ctx |-> StartupCtx, log |-> <<"info">>]
     \/ /\ x509_svid = 0
        /\ spiffe_id = PyNone
        /\ cert_file = NoFile /\ key_file = NoFile /\ bundle_file = NoFile
        /\ disk = [f \in FileIds |-> Absent]
        /\ succeeded = FALSE
        /\ age = -1
        /\ rd = NoRead
        /\ srv = [pc |-> "serving", ctx |-> NoCtx, log |-> <<"warning">>]
  /\ allowed_callers \in AllowLists
  /\ http = NoRequest
  /\ get = NoGet
  /\ api = NoApi
  /\ loop = NoLoop

\* a handler on its own (allowed_callers=None becomes [])
Init ==
  /\ InitHandler
  /\ allowed_callers = {}
  /\ http = NoRequest
  /\ srv = NoServer
  /\ get = NoGet
  /\ api = NoApi
  /\ loop = NoLoop

InitAgent ==
  /\ InitHandler
  /\ allowed_callers \in AllowLists
  /\ http = NoRequest
  /\ srv = NoServer
  /\ get = NoGet
  /\ api = NoApi
  /\ loop = NoLoop

NextHttp == do_POST

\* the LMS process: its threads call APIClient
NextApi == ApiStep

\* the service up to serve_forever, without its clients
NextRun ==
  \/ CtorStep
  \/ BgStep
  \/ RunStep

\* the handler and an agent that comes and goes
NextLive ==
  \/ AgentToggle
  \/ CtorStep
  \/ BgStep

\* a started service: the refresh thread, the agent and the clients
NextLoop ==
  \/ BgStep
  \/ Arrive
  \/ Accept
  \/ Finish

\* the service: the handler, run() and the health probes
NextServe ==
  \/ CtorStep
  \/ BgStep
  \/ RunStep
  \/ do_GET

SpecHttp == InitAgent /\ [][NextHttp]_vars

\* --------------------------------------------------------- specifications
\* the handler: its constructor, its background refresh loop and the agent
SpecRefresh == Init /\ [][NextRefresh]_vars

\* the handler with a reader of its credential
SpecReaders == Init /\ [][NextReaders]_vars

\* the handler with callers of make_mtls_request and APIClient.post
SpecOutbound == Init /\ [][NextOutbound]_vars

\* the threads of a process that uses APIClient
SpecApi == Init /\ [][NextApi]_vars

\* a service from the moment run() serves
SpecLoop == InitServing /\ [][NextLoop]_vars

\* a service from its construction to serve_forever and beyond
SpecRun == InitAgent /\ [][NextRun]_vars

\* a service from its construction on
SpecServe == InitAgent /\ [][NextServe]_vars

\* the background thread and the constructor are scheduled: neither waits forever
SpecLive == Init /\ [][NextLive]_vars /\ WF_vars(CtorStep) /\ WF_vars(BgStep)

\* cert_file, key_file and bundle_file are all set
Ready == cert_file # NoFile /\ key_file # NoFile /\ bundle_file # NoFile

\* ------------------------------------------------------------------ claims

\* C1 (as claimed): a reader that found the credential ready ends having loaded
\* a certificate and a key that exist, are completely written and belong to the
\* same SVID, and (the server context) a bundle that exists and is written.
CE_C1 ==
  (rd.pc = "end" /\ rd.res \in {"loaded", "load_error"}) =>
    /\ rd.oc.st = "written" /\ rd.ok.st = "written" /\ rd.ok.gen = rd.oc.gen
    /\ rd.op = "server" => rd.ob.st = "written"

\* C2 (as claimed): when a refresh attempt has failed, x509_svid, spiffe_id,
\* cert_file, key_file and bundle_file are what they were when the attempt began
\* and every file that was materialized then still exists.
CE_C2 ==
  \A t \in Threads :
    pc[t] = "r_except" =>
      /\ x509_svid = snap[t].svid /\ spiffe_id = snap[t].sid
      /\ cert_file = snap[t].cert /\ key_file = snap[t].key
      /\ bundle_file = snap[t].bundle
      /\ \A f \in snap[t].files : Exists(f)

\* C3 (as claimed): a call of _refresh_certificates that returns False has made
\* 5 attempts and slept 2, 4, 8, 16 and 32 seconds, one sleep after each of them.
CE_C3 ==
  \A t \in Threads :
    (pc[t] = "r_ret" /\ ret[t] = "False") =>
      attempt[t] = 5 /\ slept[t] = <<2, 4, 8, 16, 32>>

\* C3 (amended): a call of _refresh_certificates that returns False has made 5
\* attempts and slept 2, 4, 8 and 16 seconds after the 1st to 4th failed attempt;
\* it does not sleep after the 5th.
Thm_C3 ==
  \A t \in Threads :
    (pc[t] = "r_ret" /\ ret[t] = "False") =>
      attempt[t] = 5 /\ slept[t] = <<2, 4, 8, 16>>

Wit_C3 == pc["ctor"] = "r_ret" /\ ret["ctor"] = "False" /\ Len(slept["ctor"]) = 4

\* C4: the background loop begins a refresh again and again, whatever failed
\* before (the startup refresh too), and if the agent is reachable from some time
\* on, the handler eventually holds a materialized credential.
Thm_C4 ==
  /\ []<>(pc["bg"] = "r_svid" /\ attempt["bg"] = 1)
  /\ (<>[]agentUp) => <>Ready

\* the background loop materializes the first credential after a startup refresh
\* that failed on an unreachable agent
Wit_C4 ==
  /\ pc["bg"] = "r_ret" /\ ret["bg"] = "True" /\ Ready
  /\ snap["bg"].cert = NoFile /\ faults = 0

\* C5: the constructor and the background thread are never both inside
\* _refresh_certificates, and the background thread exists only once the
\* constructor is through.
Thm_C5 ==
  /\ ~(InRefresh("ctor") /\ InRefresh("bg"))
  /\ pc["bg"] # "unstarted" => pc["ctor"] = "done"

\* a background refresh is in its retry sleeps
Wit_C5 == pc["bg"] = "r_except" /\ attempt["bg"] >= 2 /\ pc["ctor"] = "done"

\* the allow-list, the peer and the development-mode flag of the handled request
\* permit it, in the words of the specification
PermittedBySpec ==
  \/ allowed_callers = {}
  \/ http.peer \in allowed_callers
  \/ http.peer = PyNone /\ http.req.dev = "true"

\* C6: the authorization step lets a POST through exactly when the allow-list is
\* empty, or the peer id is in it, or the peer id is absent and DEV_MODE is on.
Thm_C6 == http.handled => ((http.authz # "deny") <=> PermittedBySpec)

\* a request without a peer id passes a non-empty allow-list in development mode
Wit_C6 ==
  /\ http.handled /\ allowed_callers # {} /\ http.peer = PyNone
  /\ http.req.dev = "true" /\ http.authz # "deny"

\* C7: handle_request runs only for a request the authorization step permitted
\* and that got no 403; for a denied request it never runs.
Thm_C7 ==
  http.handled =>
    /\ http.calls > 0 => (http.authz \in {"permit", "permit_dev"} /\ ClientStatus(http) # 403)
    /\ http.authz = "deny" => http.calls = 0

\* a member of a non-empty allow-list reached the callback
Wit_C7 ==
  /\ http.handled /\ http.calls = 1
  /\ allowed_callers # {} /\ http.peer \in allowed_callers

Contains(text, x) == \E i \in DOMAIN text : text[i] = x

\* C8 (as claimed): a denied POST gets a 4xx response whose message holds the
\* rejected peer id, or "none" when there was no peer id.
CE_C8 ==
  (http.handled /\ http.authz = "deny") =>
    /\ ClientStatus(http) \in 400..499
    /\ Contains(Head(http.sent).text, IF http.peer = PyNone THEN "none" ELSE http.peer)

\* C8 (amended): a denied POST gets a 403 response whose message holds the
\* rejected peer id, or "None" (Python's rendering of None) when there was no
\* peer id.
Thm_C8 ==
  (http.handled /\ http.authz = "deny") =>
    /\ ClientStatus(http) = 403
    /\ Contains(Head(http.sent).text, IF http.peer = PyNone THEN "None" ELSE http.peer)
    /\ Contains(ClientBody(http)[1].text, IF http.peer = PyNone THEN "None" ELSE http.peer)

\* a request without a peer id is denied
Wit_C8 == http.handled /\ http.authz = "deny" /\ http.peer = PyNone

\* the body of the request cannot be decoded: the Content-Length is no number, or
\* the bytes it announces are no JSON
Undecodable(rq) ==
  \/ ~ParseLength(rq.length).ok
  \/ ParseLength(rq.length).n # 0 /\ ~JsonLoads(rq.body).ok

\* C9 (as claimed): a POST whose body cannot be decoded gets a 4xx response and
\* the callback is not invoked.
CE_C9 ==
  (http.handled /\ Undecodable(http.req)) =>
    ClientStatus(http) \in 400..499 /\ http.calls = 0

\* C10 (as claimed): when the callback raises, the client gets a 5xx response
\* whose body is {error: message}; when it returns, the client gets a success
\* response whose body is the encoded result.
CE_C10 ==
  (http.handled /\ http.calls > 0) =>
    IF http.req.cb.raises
      THEN /\ ClientStatus(http) \in 500..599
           /\ ClientBody(http) = <<Body_(ErrorJson(http.req.cb.val))>>
      ELSE /\ ClientStatus(http) \in 200..299
           /\ JsonDumps(http.req.cb.val).ok
           /\ ClientBody(http) = <<Body_(JsonDumps(http.req.cb.val).text)>>

\* C11 (as claimed): a GET /health that a caller sends to the running service in
\* the protocol of its socket (plain or TLS) is answered 200 with the status, the
\* service name and the SPIFFE id, whatever certificate the caller has or lacks,
\* and the callback is not invoked.
CE_C11 ==
  (get.handled /\ get.path = "/health" /\ (get.caller.tls <=> srv.ctx # NoCtx)) =>
    /\ ClientStatus(get) = 200
    /\ Len(get.sent) = 2
    /\ get.sent[2].text[2] = "healthy" /\ get.sent[2].text[3] = service_name
    /\ get.calls = 0

\* C12 (as claimed): create_server_ssl_context returns, when the three files are
\* materialized, a server context that requires a client certificate, verifies
\* it against the bundle and pins TLS 1.2; otherwise a server context that
\* requires no client certificate, after logging a warning.
CE_C12 ==
  (rd.pc = "end" /\ rd.op = "server" /\ rd.res \in {"loaded", "fallback"}) =>
    IF rd.res = "loaded"
      THEN /\ rd.ctx.side = "server" /\ rd.ctx.verify_mode = "CERT_REQUIRED"
           /\ rd.ctx.ca = "bundle" /\ rd.ctx.minimum_version = "TLSv1_2"
      ELSE /\ rd.ctx.side = "server" /\ rd.ctx.verify_mode = "CERT_NONE"
           /\ rd.warned

\* C13 (as claimed): as long as no refresh has returned True, make_mtls_request
\* raises "Certificates not initialized" and puts no request on the network.
CE_C13 ==
  (rd.op = "client" /\ rd.pc \in {"send", "end"} /\ ~succeeded) =>
    rd.res = "not_initialized" /\ rd.tries = 0

\* C14: one call of make_mtls_request or APIClient.post puts at most one request
\* on the network; APIClient.post returns None when its mTLS request failed.
Thm_C14 ==
  /\ rd.tries <= 1
  /\ (rd.op = "post" /\ rd.pc = "end" /\ rd.scheme = "https" /\ rd.net # "response") =>
       rd.out = "None"

\* APIClient.post gave up after the handshake of its one mTLS request failed
Wit_C14 ==
  /\ rd.op = "post" /\ rd.pc = "end" /\ rd.scheme = "https"
  /\ rd.net = "handshake" /\ rd.tries = 1 /\ rd.out = "None"

\* C15 (as claimed): the payload of an mTLS request reaches only a server whose
\* certificate chains to the trust bundle.
CE_C15 ==
  (rd.scheme = "https" /\ rd.delivered # "none") => rd.delivered = "trusted"

\* C16: as long as the agent has answered no fetch, cert_file and key_file are
\* None, the startup refresh returns False, the constructor goes on to start the
\* thread, and create_server_ssl_context returns its fallback context.
Thm_C16 ==
  x509_svid = 0 =>
    /\ cert_file = NoFile /\ key_file = NoFile
    /\ pc["ctor"] = "r_ret" => ret["ctor"] = "False"
    /\ Constructed => pc["bg"] # "unstarted"
    /\ (rd.op = "server" /\ rd.pc = "end") => (rd.res = "fallback" /\ rd.ctx # NoCtx)

\* the fallback context of a handler whose agent never answered
Wit_C16 ==
  /\ Constructed /\ x509_svid = 0 /\ ~agentUp
  /\ rd.op = "server" /\ rd.pc = "end" /\ rd.res = "fallback"

\* C17: when a refresh returns True, x509_svid is the SVID the agent returned to
\* it, spiffe_id is the id of that SVID, and cert_file and key_file are set and
\* hold the written chain and key of that SVID.
Thm_C17 ==
  \A t \in Threads :
    (pc[t] = "r_ret" /\ ret[t] = "True") =>
      /\ fetched[t] # 0 /\ x509_svid = fetched[t]
      /\ spiffe_id = SpiffeIdOf(fetched[t])
      /\ cert_file # NoFile /\ key_file # NoFile
      /\ disk[cert_file].st = "written" /\ disk[cert_file].gen = fetched[t]
      /\ disk[key_file].st = "written" /\ disk[key_file].gen = fetched[t]

\* a background refresh replaced the first SVID by the rotated one
Wit_C17 ==
  /\ pc["bg"] = "r_ret" /\ ret["bg"] = "True"
  /\ fetched["bg"] = 2 /\ snap["bg"].svid = 1

\* C18 (as claimed): make_mtls_request that began on a complete credential while
\* no refresh was running loads the certificate and the key of that credential,
\* whatever a refresh does in the meantime.
CE_C18 ==
  (rd.op = "client" /\ rd.quiet /\ rd.pc \in {"send", "end"}) =>
    /\ rd.res = "loaded"
    /\ rd.oc.gen = rd.g0 /\ rd.ok.gen = rd.g0

\* C19 (as claimed): once a refresh has returned True, the SVID the handler
\* holds is never older than its lifetime.
CE_C19 == succeeded => age <= ValidFor

Thm_C21 ==
  /\ [][srv.pc = "bind_failed" => srv'.pc = "bind_failed"]_vars
  /\ [][(srv.pc \in {"bound", "ctx"} /\ srv' # srv) => srv'.pc \in {"ctx", "serving"}]_vars
  /\ [](srv.pc = "serving" =>
          IF srv.ctx = NoCtx THEN srv.log \in {<<"warning">>, <<"error">>}
                             ELSE srv.log = <<"info">>)

\* run() serves in plaintext after the TLS wrap failed
Wit_C21 == srv.pc = "serving" /\ srv.ctx = NoCtx /\ srv.log = <<"error">>

\* C25 (as claimed): whenever no call of _refresh_certificates is in progress, cert_file,
\* key_file and bundle_file are all unset or all set, so a readiness check on
\* cert_file alone agrees with the check on all three.
CE_C25 ==
  (\A t \in Threads : ~InRefresh(t)) =>
    /\ (cert_file = NoFile /\ key_file = NoFile /\ bundle_file = NoFile) \/ Ready
    /\ (cert_file # NoFile) <=> Ready

\* C29 (as claimed): whenever no call of _refresh_certificates is in progress, a set spiffe_id
\* is the identity of x509_svid, and the certificate and the key of that SVID
\* are materialized in cert_file and key_file.
CE_C29 ==
  ((\A t \in Threads : ~InRefresh(t)) /\ spiffe_id # PyNone) =>
    /\ spiffe_id = SpiffeIdOf(x509_svid)
    /\ Exists(cert_file) /\ disk[cert_file] = [st |-> "written", gen |-> x509_svid]
    /\ Exists(key_file) /\ disk[key_file] = [st |-> "written", gen |-> x509_svid]

\* C30 (as claimed): a call of _refresh_certificates that returns True has
\* materialized a trust bundle with at least one CA certificate in bundle_file.
CE_C30 ==
  \A t \in Threads :
    (pc[t] = "r_ret" /\ ret[t] = "True") =>
      bundle_file # NoFile /\ disk[bundle_file].st = "written"

\* C26 (as claimed): a POST whose body cannot be decoded and whose peer is not
\* permitted fails at the decoding step, which comes first: it is not answered
\* 403 Unauthorized.
CE_C26 ==
  (http.handled /\ Undecodable(http.req)
     /\ Authorize(allowed_callers, http.peer, http.req.dev) = "deny") =>
    ClientStatus(http) # 403

\* C27 (as claimed): a POST without a peer id that is permitted while DEV_MODE
\* is "true" has logged a warning, whatever the allow-list is.
CE_C27 ==
  (http.handled /\ http.peer = PyNone /\ http.req.dev = "true" /\ http.authz # "deny") =>
    http.warned

\* C24 (as claimed): at most one SPIFFEMTLSHandler is ever constructed, and the
\* callers of get_mtls_handler that got a handler all got the same one.
CE_C24 ==
  /\ api.created <= 1
  /\ \A t, u \in ApiThreads :
       (api.th[t].pc = "done" /\ api.th[u].pc = "done"
          /\ api.th[t].got # 0 /\ api.th[u].got # 0) => api.th[t].got = api.th[u].got

\* C22 (as claimed): while the handler of one request has not returned, a
\* connection that waits can be accepted at once: the server does not wait for
\* the first handler to finish.
CE_C22 ==
  (srv.pc = "serving" /\ loop.running # NoLoopRequest /\ loop.waiting > 0) =>
    ENABLED Accept

\* C23: no step takes a serving server out of serving, whatever the request it
\* handled: a waiting connection is accepted once the handler has returned and
\* every request gets the response of do_POST for it; and the refresh thread
\* goes back to sleep after a refresh that returned, it never stops.
Thm_C23 ==
  /\ [][srv.pc = "serving" => srv'.pc = "serving"]_vars
  /\ []((srv.pc = "serving" /\ loop.running = NoLoopRequest /\ loop.waiting > 0) =>
          ENABLED Accept)
  /\ [](http.handled => http = DoPost(allowed_callers, http.req))
  /\ [](pc["bg"] \in RefreshPcs \cup {"sleep", "r_ret"})
  /\ [][pc["bg"] = "r_ret" => pc'["bg"] \in {"r_ret", "sleep"}]_vars

\* a POST is answered 200 right after a POST with an undecodable body, while a
\* refresh of the loop has just failed
Wit_C23 ==
  /\ srv.pc = "serving" /\ loop.prev = "malformed"
  /\ http.handled /\ ClientStatus(http) = 200 /\ Outcome(http) = "ok"
  /\ pc["bg"] = "r_ret" /\ ret["bg"] = "False"

\* C28: the context of the server socket is set by the wrap step of run() and
\* by nothing else, and no step changes the server once it serves.
Thm_C28 ==
  /\ [][srv.pc = "serving" => srv' = srv]_vars
  /\ [][srv'.ctx # srv.ctx => (srv.pc = "ctx" /\ srv'.pc = "serving")]_vars

\* a service that started in plaintext still has the plain socket when a
\* refresh of the loop has returned True and the credential is complete
Wit_C28 ==
  /\ srv.pc = "serving" /\ srv.ctx = NoCtx
  /\ pc["bg"] = "r_ret" /\ ret["bg"] = "True" /\ Ready
  /\ disk[bundle_file].st = "written"

====
